---- MODULE Spec2Model ----
(***************************************************************************)
(* A model of package gorbl (src/gorbl.go): the RBL client built by NewRBL,*)
(* the pure function Reverse, and the two lookups, LookupIP and Lookup,    *)
(* run against a DNS resolver that answers nondeterministically.           *)
(*                                                                         *)
(* Go strings are sequences of one-character strings, so that formatting,  *)
(* splitting and joining are computed and not assumed. A net.IP is the     *)
(* sequence of its bytes (4 for IPv4, 16 for IPv6, <<>> for a nil IP).     *)
(* A nil error is NoErr.                                                   *)
(***************************************************************************)
EXTENDS Integers, Sequences, FiniteSets, TLC

VARIABLES rbl, built, call, rev

vars == <<rbl, built, call, rev>>

----------------------------------------------------------------------------
(* Strings *)

Dot == "."

DecDigits == <<"0", "1", "2", "3", "4", "5", "6", "7", "8", "9">>

HexDigits == <<"0", "1", "2", "3", "4", "5", "6", "7", "8", "9",
               "a", "b", "c", "d", "e", "f">>

\* F(x) with x computed once, as a local that is assigned once is
With(x, F(_)) == CHOOSE r \in {F(v) : v \in {x}} : TRUE

RECURSIVE Itoa(_)
\* strconv-style decimal form of a byte, without leading zeros
Itoa(n) ==
    IF n < 10 THEN <<DecDigits[n + 1]>>
    ELSE Itoa(n \div 10) \o <<DecDigits[(n % 10) + 1]>>

RECURSIVE Hex(_)
\* lower-case hexadecimal form of a number, without leading zeros
Hex(n) ==
    IF n < 16 THEN <<HexDigits[n + 1]>>
    ELSE Hex(n \div 16) \o <<HexDigits[(n % 16) + 1]>>

\* two hexadecimal digits per byte (the form String gives an IP of a bad length)
RECURSIVE HexString(_)
HexString(b) ==
    IF b = <<>> THEN <<>>
    ELSE <<HexDigits[(Head(b) \div 16) + 1], HexDigits[(Head(b) % 16) + 1]>>
         \o HexString(Tail(b))

RECURSIVE SplitFrom(_, _, _, _)
\* the pieces of s from position i on, the piece being read starting at start
SplitFrom(s, sep, start, i) ==
    IF i > Len(s) THEN <<SubSeq(s, start, Len(s))>>
    ELSE IF s[i] = sep
         THEN <<SubSeq(s, start, i - 1)>> \o SplitFrom(s, sep, i + 1, i + 1)
    ELSE SplitFrom(s, sep, start, i + 1)

\* strings.Split(s, sep) for a one-character sep
Split(s, sep) == With(s, LAMBDA v : SplitFrom(v, sep, 1, 1))

RECURSIVE JoinFrom(_, _, _)
\* the parts from the k-th on, with sep between them
JoinFrom(parts, sep, k) ==
    IF k > Len(parts) THEN <<>>
    ELSE IF k = Len(parts) THEN parts[k]
    ELSE parts[k] \o <<sep>> \o JoinFrom(parts, sep, k + 1)

\* strings.Join(parts, sep)
Join(parts, sep) == With(parts, LAMBDA v : JoinFrom(v, sep, 1))

----------------------------------------------------------------------------
(* net.IP *)

IPv4len == 4

IPv6len == 16

\* the nil []byte that To4 returns for an address that is not IPv4
NilIP == <<>>

\* the ::ffff:0:0/96 prefix of an IPv4 address held in 16 bytes
V4InV6Prefix == <<0, 0, 0, 0, 0, 0, 0, 0, 0, 0, 255, 255>>

\* ip.To4(): the 4-byte form of an IPv4 address, NilIP for any other address
To4(ip) ==
    IF Len(ip) = IPv4len THEN ip
    ELSE IF Len(ip) = IPv6len /\ SubSeq(ip, 1, 12) = V4InV6Prefix
         THEN SubSeq(ip, 13, 16)
    ELSE NilIP

\* the eight 16-bit groups of a 16-byte address
Groups(ip) == [g \in 1..8 |-> ip[2 * g - 1] * 256 + ip[2 * g]]

\* the length of the run of zero groups that starts at group g
RECURSIVE ZeroRun(_, _)
ZeroRun(gs, g) ==
    IF g > Len(gs) \/ gs[g] # 0 THEN 0 ELSE 1 + ZeroRun(gs, g + 1)

\* the first longest run of at least two zero groups: <<start, length>>,
\* <<0, 0>> when there is none
LongestZeroRun(gs) ==
    LET best == CHOOSE g \in 1..8 :
                  /\ \A h \in 1..8 : ZeroRun(gs, h) <= ZeroRun(gs, g)
                  /\ \A h \in 1..(g - 1) : ZeroRun(gs, h) < ZeroRun(gs, g)
    IN IF ZeroRun(gs, best) >= 2 THEN <<best, ZeroRun(gs, best)>> ELSE <<0, 0>>

RECURSIVE V6From(_, _, _)
\* the groups from g on, colon-separated, with the run z written as "::"
V6From(gs, g, z) ==
    IF g > 8 THEN <<>>
    ELSE IF g = z[1] THEN <<":", ":">> \o V6From(gs, g + z[2], z)
    ELSE (IF g > 1 /\ g # z[1] + z[2] THEN <<":">> ELSE <<>>)
         \o Hex(gs[g]) \o V6From(gs, g + 1, z)

\* ip.String()
String(ip) ==
    IF Len(ip) = 0 THEN <<"<", "n", "i", "l", ">">>
    ELSE IF Len(ip) # IPv4len /\ Len(ip) # IPv6len THEN <<"?">> \o HexString(ip)
    ELSE IF To4(ip) # NilIP
         THEN LET p == To4(ip)
              IN Itoa(p[1]) \o <<Dot>> \o Itoa(p[2]) \o <<Dot>>
                 \o Itoa(p[3]) \o <<Dot>> \o Itoa(p[4])
    ELSE With(Groups(ip), LAMBDA gs :
            With(LongestZeroRun(gs), LAMBDA z : V6From(gs, 1, z)))

----------------------------------------------------------------------------
(* Reverse *)

\* a loop that stops one exchange early: only the outer pair is exchanged
SwapLoopOuterOnly(a, i, j) ==
    IF Len(a) < 2 THEN a
    ELSE [a EXCEPT ![i + 1] = a[j + 1], ![j + 1] = a[i + 1]]

RECURSIVE SwapLoop(_, _, _)
\* the loop of Reverse, i and j counted from 0 as in the source
SwapLoop(splitAddress, i, j) ==
    With(splitAddress, LAMBDA a :
        IF i < Len(a) \div 2
        THEN SwapLoop([a EXCEPT ![i + 1] = a[j + 1], ![j + 1] = a[i + 1]],
                      i + 1, j - 1)
        ELSE a)

Reverse(ip) ==
    IF To4(ip) # NilIP
    THEN With(Split(String(ip), Dot), LAMBDA splitAddress :
            Join(SwapLoop(splitAddress, 0, Len(splitAddress) - 1), Dot))
    ELSE <<>>

----------------------------------------------------------------------------
(* The client and its results *)

\* the nil error
NoErr == "<nil>"

\* NewRBL: the client, the one place its three fields are written
NewRBL(hostname, lookupTxt) ==
    [hostname |-> hostname, lookupTxt |-> lookupTxt, resolver |-> "net.Resolver"]

\* Host and List exchanged
NewResultsSwapped(host) == [Host |-> rbl.hostname, List |-> host, Results |-> <<>>]

\* ret := RBLResults{Host: ..., List: r.hostname, Results: []Result{}}
NewResults(host) == [Host |-> host, List |-> rbl.hostname, Results |-> <<>>]

\* ipHostname := fmt.Sprintf("%s.%s", Reverse(ip), r.hostname)
QueryName(ip) == Reverse(ip) \o <<Dot>> \o rbl.hostname

\* the negative finding without the "if err != nil" that records the error
UnlistedDropsErr(ip, err) ==
    [Address |-> String(ip), Listed |-> FALSE, ListedAddress |-> <<>>,
     Text |-> <<>>, Error |-> FALSE, ErrorType |-> NoErr]

\* the finding of LookupIP when the host resolution returned no address
Unlisted(ip, err) ==
    [Address |-> String(ip), Listed |-> FALSE, ListedAddress |-> <<>>,
     Text |-> <<>>, Error |-> err # NoErr, ErrorType |-> err]

\* the positive finding with the last TXT value in place of txt[0]
ListedResultLastTxt(ip, addr, txt, err) ==
    [Address |-> String(ip), Listed |-> TRUE, ListedAddress |-> addr,
     Text |-> IF Len(txt) > 0 THEN txt[Len(txt)] ELSE <<>>,
     Error |-> err # NoErr, ErrorType |-> err]

\* the positive finding without the "if err != nil" that records the error
ListedResultNoErr(ip, addr, txt, err) ==
    [Address |-> String(ip), Listed |-> TRUE, ListedAddress |-> addr,
     Text |-> IF Len(txt) > 0 THEN txt[1] ELSE <<>>,
     Error |-> FALSE, ErrorType |-> NoErr]

\* the finding of LookupIP for one returned address; txt is what LookupTXT
\* returned, <<>> when it was not called
ListedResult(ip, addr, txt, err) ==
    [Address |-> String(ip), Listed |-> TRUE, ListedAddress |-> addr,
     Text |-> IF Len(txt) > 0 THEN txt[1] ELSE <<>>,
     Error |-> err # NoErr, ErrorType |-> err]

----------------------------------------------------------------------------
(* One call: its position, its locals and what it has asked and been told *)

Callers == {"c1", "c2"}

NoFrame == [ip |-> NilIP, ipHostname |-> <<>>, addrs |-> <<>>, err |-> NoErr,
            j |-> 0, ret |-> [Host |-> <<>>, List |-> <<>>, Results |-> <<>>],
            asked |-> <<>>, txts |-> <<>>]

Idle == [pc |-> "idle", op |-> "none", arg |-> <<>>,
         cancelled |-> FALSE, cancelledAt |-> "none",
         ret |-> [Host |-> <<>>, List |-> <<>>, Results |-> <<>>],
         addrs |-> <<>>, err |-> NoErr, i |-> 0,
         cur |-> NoFrame, frames |-> <<>>, queries |-> <<>>, overlapped |-> FALSE]

Query(kind, name) == [kind |-> kind, name |-> name]

\* the body of LookupIP up to r.resolver.LookupHost(ctx, ipHostname)
EnterLookupIP(s, ip) ==
    With(QueryName(ip), LAMBDA ipHostname :
        [s EXCEPT !.pc = "LookupHost",
                  !.cur = [NoFrame EXCEPT !.ip = ip,
                                          !.ipHostname = ipHostname,
                                          !.ret = NewResults(String(ip)),
                                          !.asked = <<Query("LookupHost", ipHostname)>>],
                  !.queries = Append(@, Query("LookupHost", ipHostname))])

\* the loop of Lookup without "if addr.IP.To4() != nil"
NextAddrNoFilter(s0) ==
    With(s0, LAMBDA s :
        IF s.i > Len(s.addrs) THEN [s EXCEPT !.pc = "done"]
        ELSE EnterLookupIP(s, s.addrs[s.i]))

RECURSIVE NextAddr(_)
\* the loop of Lookup from addrs[i] on: the addresses that are not IPv4 are
\* passed over, LookupIP is entered for the first that is, and Lookup returns
\* when none is left
NextAddr(s0) ==
    With(s0, LAMBDA s :
        IF s.i > Len(s.addrs) THEN [s EXCEPT !.pc = "done"]
        ELSE IF To4(s.addrs[s.i]) # NilIP THEN EnterLookupIP(s, s.addrs[s.i])
        ELSE NextAddr([s EXCEPT !.i = @ + 1]))

\* return ret of LookupIP: to the caller, or into the loop of Lookup, which
\* appends qResults.Results and goes on with the next address
ReturnLookupIP(s0) ==
    With(s0, LAMBDA s :
        IF s.op = "LookupIP"
        THEN [s EXCEPT !.frames = Append(@, s.cur), !.cur = NoFrame,
                       !.pc = "done", !.ret = s.cur.ret]
        ELSE NextAddr([s EXCEPT !.frames = Append(@, s.cur), !.cur = NoFrame,
                                !.ret.Results = @ \o s.cur.ret.Results,
                                !.i = @ + 1]))

\* the TXT lookup of the loop of LookupIP for addrs[j]
IssueTXT(s) ==
    [s EXCEPT !.pc = "LookupTXT",
              !.cur.asked = Append(@, Query("LookupTXT", s.cur.ipHostname)),
              !.queries = Append(@, Query("LookupTXT", s.cur.ipHostname))]

\* the findings put in front of ret.Results instead of appended
ListAllReversed(ip, addrs, err) ==
    [k \in 1..Len(addrs) |->
        ListedResult(ip, addrs[Len(addrs) + 1 - k], <<>>, err)]

\* the loop of LookupIP when no TXT lookup is made: one finding per address
ListAll(ip, addrs, err) ==
    [k \in 1..Len(addrs) |-> ListedResult(ip, addrs[k], <<>>, err)]

\* LookupIP from the answer of LookupHost to its next resolver call or return
AfterLookupHost(s, addrs, err) ==
    With([s.cur EXCEPT !.addrs = addrs, !.err = err], LAMBDA f :
        IF Len(addrs) < 1
        THEN ReturnLookupIP(
               [s EXCEPT !.cur = [f EXCEPT !.ret.Results =
                                      Append(@, Unlisted(f.ip, err))]])
        ELSE IF rbl.lookupTxt
        THEN IssueTXT([s EXCEPT !.cur = [f EXCEPT !.j = 1]])
        ELSE ReturnLookupIP(
               [s EXCEPT !.cur = [f EXCEPT
                   !.j = Len(addrs) + 1,
                   !.ret.Results = @ \o ListAll(f.ip, addrs, err)]]))

\* LookupIP from the answer of LookupTXT for addrs[j] to the next call or return
AfterLookupTXT(s, txt, err) ==
    With([s.cur EXCEPT
             !.ret.Results =
                 Append(@, ListedResult(s.cur.ip, s.cur.addrs[s.cur.j], txt, s.cur.err)),
             !.txts = Append(@, [txt |-> txt, err |-> err]),
             !.j = @ + 1],
         LAMBDA g :
            IF g.j <= Len(g.addrs)
            THEN IssueTXT([s EXCEPT !.cur = g])
            ELSE ReturnLookupIP([s EXCEPT !.cur = g]))

\* Lookup with "err == nil" not tested: the addresses are used as returned
AfterLookupIPAddrIgnoresErr(s, addrs, err) ==
    NextAddr([s EXCEPT !.addrs = addrs, !.err = err, !.i = 1])

\* Lookup from the answer of LookupIPAddr on
AfterLookupIPAddr(s, addrs, err) ==
    IF err = NoErr
    THEN NextAddr([s EXCEPT !.addrs = addrs, !.err = err, !.i = 1])
    ELSE [s EXCEPT !.addrs = addrs, !.err = err, !.pc = "done"]

\* ret kept in the client and so shared by the calls in flight
StoreShared(c, s) ==
    [k \in Callers |->
        IF k = c THEN s
        ELSE IF call[k].pc \in {"idle", "done"} THEN call[k]
        ELSE [call[k] EXCEPT !.ret = s.ret]]

InFlight(c) == call[c].pc \notin {"idle", "done"}

\* a call's state is its own: ret, addrs and err are locals of the call.
\* overlapped records that another caller's call was in flight at this step
Store(c, s) ==
    [call EXCEPT ![c] = [s EXCEPT !.overlapped =
                             @ \/ \E k \in Callers \ {c} : InFlight(k)]]

----------------------------------------------------------------------------
(* The inputs and the resolver's answers *)

\* how many addresses a host name resolves to, at most
MaxIPs == 3

\* how many addresses the blacklist returns for one query name, at most
MaxListed == 2

Zones == {<<"b", "l", ".", "x">>, <<"z", ".", "o", "r", "g">>}

Hosts == {<<"m", "x", ".", "a">>, <<"s", "m", "t", "p">>}

V4A == <<192, 168, 1, 1>>

V4B == <<10, 0, 0, 255>>

\* 2001:db8::1
V6A == <<32, 1, 13, 184, 0, 0, 0, 0, 0, 0, 0, 0, 0, 0, 0, 1>>

\* fe80::a00:0:0:1
V6B == <<254, 128, 0, 0, 0, 0, 0, 0, 10, 0, 0, 0, 0, 0, 0, 1>>

\* ::ffff:64.233.171.108, an IPv4 address in its 16-byte form
V4Mapped == V4InV6Prefix \o <<64, 233, 171, 108>>

\* the addresses a host name may resolve to, in the resolver's order
IPPool == <<V4B, V6A, V4A, V6B, V4Mapped>>

\* the addresses LookupIP is called with
LookupIPArgs == {V4A, V4Mapped, V6A}

Prefix(p, n) == SubSeq(p, 1, n)

RECURSIVE SubSeqsOf(_)
\* the sequences got from p by leaving elements out
SubSeqsOf(p) ==
    IF p = <<>> THEN {<<>>}
    ELSE LET r == SubSeqsOf(Tail(p))
         IN r \cup {<<Head(p)>> \o x : x \in r}

\* the k-th address and TXT value a blacklist returns (not in sorted order)
ListedAddr(k) == String(<<127, 0, 0, 12 - 2 * k>>)

TxtValue(k) == <<"r">> \o Itoa(9 - k)

ResolveErrs == {"i/o timeout"}

\* ctx.Err() once the context is cancelled
Canceled == "context canceled"

Answer(addrs, err) == [addrs |-> addrs, err |-> err]

IPAddrAnswers(n) ==
    {Answer(a, NoErr) : a \in SubSeqsOf(Prefix(IPPool, n))}
    \cup {Answer(a, e) : a \in {<<>>, Prefix(IPPool, 1)}, e \in ResolveErrs}

HostAnswers(n) ==
    {Answer([k \in 1..m |-> ListedAddr(k)], e) :
        m \in 0..n, e \in {NoErr} \cup ResolveErrs}

\* no TXT record, two of them, or a failed resolution
TxtAnswers ==
    {Answer(<<>>, NoErr), Answer(<<TxtValue(1), TxtValue(2)>>, NoErr)}
    \cup {Answer(<<>>, e) : e \in ResolveErrs}

\* the resolver called with a context of its own: it never sees the cancellation
AnswersWithoutCtx(s, free) == free

\* ctx is handed to every resolver call, and a resolver that honours
\* cancellation answers a cancelled call with ctx.Err()
Answers(s, free) == IF s.cancelled THEN {Answer(<<>>, Canceled)} ELSE free

----------------------------------------------------------------------------
(* The actions *)

NoRev == [ip |-> NilIP, out |-> <<>>, called |-> FALSE]

\* the client as NewRBL(z, f) returns it, no call made yet; built keeps z and f
InitClient ==
    /\ \E z \in Zones, f \in BOOLEAN :
          /\ rbl = NewRBL(z, f)
          /\ built = [hostname |-> z, lookupTxt |-> f]
    /\ call = [c \in Callers |-> Idle]

Init == InitClient /\ rev = NoRev

\* Lookup up to r.resolver.LookupIPAddr(ctx, targetHost)
EnterLookup(s, targetHost) ==
    [s EXCEPT !.pc = "LookupIPAddr", !.op = "Lookup", !.arg = targetHost,
              !.ret = NewResults(targetHost),
              !.queries = Append(@, Query("LookupIPAddr", targetHost))]

CallLookup(c, hosts) ==
    /\ call[c].pc = "idle"
    /\ \E h \in hosts : call' = Store(c, EnterLookup(Idle, h))
    /\ UNCHANGED <<rbl, built, rev>>

CallLookupIP(c, ips) ==
    /\ call[c].pc = "idle"
    /\ \E ip \in ips :
          call' = Store(c, EnterLookupIP([Idle EXCEPT !.op = "LookupIP", !.arg = ip], ip))
    /\ UNCHANGED <<rbl, built, rev>>

ResolveIPAddr(c, free) ==
    /\ call[c].pc = "LookupIPAddr"
    /\ \E a \in Answers(call[c], free) :
          call' = Store(c, AfterLookupIPAddr(call[c], a.addrs, a.err))
    /\ UNCHANGED <<rbl, built, rev>>

ResolveHost(c, free) ==
    /\ call[c].pc = "LookupHost"
    /\ \E a \in Answers(call[c], free) :
          call' = Store(c, AfterLookupHost(call[c], a.addrs, a.err))
    /\ UNCHANGED <<rbl, built, rev>>

ResolveTXT(c, free) ==
    /\ call[c].pc = "LookupTXT"
    /\ \E a \in Answers(call[c], free) :
          call' = Store(c, AfterLookupTXT(call[c], a.addrs, a.err))
    /\ UNCHANGED <<rbl, built, rev>>

\* the caller cancels ctx while a resolver call is pending
Cancel(c) ==
    /\ call[c].pc \in {"LookupIPAddr", "LookupHost", "LookupTXT"}
    /\ ~call[c].cancelled
    /\ call' = Store(c, [call[c] EXCEPT !.cancelled = TRUE, !.cancelledAt = call[c].pc])
    /\ UNCHANGED <<rbl, built, rev>>

\* the caller takes the result; nothing of the call is kept
Return(c) ==
    /\ call[c].pc = "done"
    /\ call' = [call EXCEPT ![c] = Idle]
    /\ UNCHANGED <<rbl, built, rev>>

\* the resolver answers the pending call of c; w.ips, w.listed and w.txts are
\* what it may answer to LookupIPAddr, LookupHost and LookupTXT
Resolve(c, w) ==
    \/ ResolveIPAddr(c, w.ips)
    \/ ResolveHost(c, w.listed)
    \/ ResolveTXT(c, w.txts)

\* a step of caller c, who calls with the host names w.hosts and the
\* addresses w.args
Step(c, w) ==
    \/ CallLookup(c, w.hosts)
    \/ CallLookupIP(c, w.args)
    \/ Resolve(c, w)
    \/ Cancel(c)
    \/ Return(c)

\* one caller, one call after the other
Main == "c1"

MainWorld ==
    [hosts |-> Hosts, args |-> LookupIPArgs, ips |-> IPAddrAnswers(MaxIPs),
     listed |-> HostAnswers(MaxListed), txts |-> TxtAnswers]

Next == Step(Main, MainWorld)

Spec == Init /\ [][Next]_vars

\* one caller, one host name and one address to ask about
FairWorld == [MainWorld EXCEPT !.hosts = {<<"m", "x", ".", "a">>}, !.args = {V4A}]

NextFair == Step(Main, FairWorld)

\* a resolver that honours cancellation answers the pending call of a
\* cancelled context
ResolveCancelled == call[Main].cancelled /\ Resolve(Main, FairWorld)

FairSpec == Init /\ [][NextFair]_vars /\ WF_vars(ResolveCancelled)

\* the bounds of the answers when several callers run at once
ConcIPs == 1

ConcListed == 1

ConcWorld ==
    [hosts |-> {<<"m", "x", ".", "a">>}, args |-> {V4A},
     ips |-> IPAddrAnswers(ConcIPs), listed |-> HostAnswers(ConcListed),
     txts |-> TxtAnswers]

\* several callers on the one client, their steps interleaved
NextConc == \E c \in Callers : Step(c, ConcWorld)

SpecConc == Init /\ [][NextConc]_vars

----------------------------------------------------------------------------
(* Reverse called on its own *)

Octets == {0, 1, 10, 168, 192, 255}

ReverseInputs ==
    {<<a, b, c, d>> : a \in Octets, b \in Octets, c \in Octets, d \in Octets}
    \cup {V4InV6Prefix \o <<a, 233, b, 108>> : a \in Octets, b \in Octets}
    \cup {V6A, V6B, NilIP, <<1, 2, 3>>,
          <<0, 0, 0, 0, 0, 0, 0, 0, 0, 0, 0, 0, 192, 168, 1, 1>>}

InitReverse ==
    /\ InitClient
    /\ \E ip \in ReverseInputs : rev = [ip |-> ip, out |-> <<>>, called |-> FALSE]

\* r := Reverse(ip)
CallReverse ==
    /\ ~rev.called
    /\ rev' = [rev EXCEPT !.out = Reverse(rev.ip), !.called = TRUE]
    /\ UNCHANGED <<rbl, built, call>>

NextReverse == CallReverse

SpecReverse == InitReverse /\ [][NextReverse]_vars

----------------------------------------------------------------------------
(* What the claims speak of *)

\* a LookupIP that has returned: what it was called with, asked and told (the
\* frame) and the result the caller of LookupIP holds
Run(f, ret) == [f EXCEPT !.ret = ret]

\* the runs of LookupIP that have returned: those made by Lookup, whose result
\* is qResults, and the one a caller made, whose result is the call's
RunsOf(c) ==
    LET s == call[c]
    IN IF s.op = "Lookup"
       THEN {Run(s.frames[k], s.frames[k].ret) : k \in 1..Len(s.frames)}
       ELSE IF s.op = "LookupIP" /\ s.pc = "done"
       THEN {Run(s.frames[k], s.ret) : k \in 1..Len(s.frames)}
       ELSE {}

Runs == UNION {RunsOf(c) : c \in Callers}

TxtAsked(r) == SelectSeq(r.asked, LAMBDA q : q.kind = "LookupTXT")

IsIPv4(ip) == Len(ip) = 4 \/ (Len(ip) = 16 /\ SubSeq(ip, 1, 12) = V4InV6Prefix)

\* the last four bytes of an IPv4 address in either form
Octet(ip, k) == ip[Len(ip) - 4 + k]

\* "d.c.b.a" for the IPv4 address a.b.c.d
ReversedQuad(ip) ==
    Itoa(Octet(ip, 4)) \o <<Dot>> \o Itoa(Octet(ip, 3)) \o <<Dot>>
    \o Itoa(Octet(ip, 2)) \o <<Dot>> \o Itoa(Octet(ip, 1))

\* the findings of the frames, one frame after the other
RECURSIVE Findings(_)
Findings(frames) ==
    IF frames = <<>> THEN <<>>
    ELSE Head(frames).ret.Results \o Findings(Tail(frames))

HasCancelFinding(s) ==
    \E k \in 1..Len(s.ret.Results) :
        s.ret.Results[k].Error /\ s.ret.Results[k].ErrorType = Canceled

\* C1: a LookupIP whose host resolution returned no address returns exactly one
\* finding: Address the queried address, Listed false, ListedAddress and Text
\* empty, Error true with the resolver's error as ErrorType when there was one
\* and Error false with no ErrorType otherwise; it makes no TXT resolution.
C1_NoAnswerOneFinding ==
    \A r \in Runs :
        Len(r.addrs) = 0 =>
            /\ r.ret.Results =
                 <<[Address |-> String(r.ip), Listed |-> FALSE,
                    ListedAddress |-> <<>>, Text |-> <<>>,
                    Error |-> (r.err # NoErr), ErrorType |-> r.err]>>
            /\ TxtAsked(r) = <<>>
            /\ Len(r.asked) = 1

C1_Witness ==
    \E r \in Runs :
        /\ IsIPv4(r.ip) /\ Len(r.addrs) = 0 /\ r.err \in ResolveErrs
        /\ Len(r.ret.Results) = 1 /\ r.ret.Results[1].Error

\* C2: with TXT lookups disabled, a LookupIP whose host resolution returned
\* N >= 1 addresses returns exactly N findings in the order of the addresses,
\* the i-th Listed with ListedAddress the i-th address and Text empty, and
\* makes no TXT resolution.
C2_ListedNoTxt ==
    \A r \in Runs :
        (~built.lookupTxt /\ Len(r.addrs) >= 1) =>
            /\ Len(r.ret.Results) = Len(r.addrs)
            /\ \A k \in 1..Len(r.addrs) :
                  /\ r.ret.Results[k].Listed
                  /\ r.ret.Results[k].ListedAddress = r.addrs[k]
                  /\ r.ret.Results[k].Text = <<>>
            /\ TxtAsked(r) = <<>>

C2_Witness ==
    \E r \in Runs :
        /\ ~built.lookupTxt /\ Len(r.addrs) = 2 /\ r.addrs[1] # r.addrs[2]
        /\ Len(r.ret.Results) = 2
        /\ r.ret.Results[2].ListedAddress = r.addrs[2]

\* C3: with TXT lookups enabled, a LookupIP whose host resolution returned
\* N >= 1 addresses makes exactly N TXT resolutions, each of the query name of
\* its host resolution; the i-th finding's Text is the first value the i-th TXT
\* resolution returned, empty when it returned none; whether a TXT resolution
\* failed changes neither Error and ErrorType, which are those of the host
\* resolution, nor Listed and ListedAddress.
C3_TxtPerAddress ==
    \A r \in Runs :
        (built.lookupTxt /\ Len(r.addrs) >= 1) =>
            /\ Len(r.txts) = Len(r.addrs)
            /\ TxtAsked(r) = [k \in 1..Len(r.addrs) |->
                                 Query("LookupTXT", r.asked[1].name)]
            /\ r.ret.Results =
                 [k \in 1..Len(r.addrs) |->
                     [Address |-> String(r.ip), Listed |-> TRUE,
                      ListedAddress |-> r.addrs[k],
                      Text |-> IF r.txts[k].txt = <<>> THEN <<>>
                               ELSE Head(r.txts[k].txt),
                      Error |-> (r.err # NoErr), ErrorType |-> r.err]]

C3_Witness ==
    \E r \in Runs :
        /\ built.lookupTxt /\ Len(r.addrs) = 2 /\ r.err = NoErr
        /\ r.txts[1].err \in ResolveErrs
        /\ Len(r.txts[2].txt) = 2
        /\ r.ret.Results[1].Text = <<>> /\ ~r.ret.Results[1].Error
        /\ r.ret.Results[2].Text = TxtValue(1)

\* C4: when the resolution of the host name in Lookup succeeds, LookupIP is run
\* once for each IPv4 address of the answer, in the answer's order, and for no
\* other address; the findings of Lookup are the findings of these runs one
\* after the other; every Address is the dotted quad of one of the IPv4
\* addresses, and the only blacklist names asked, for hosts or for TXT, are
\* the reversed quads of the IPv4 addresses followed by "." and the zone.
C4_LookupConcatenatesIPv4 ==
    \A c \in Callers :
        LET s == call[c]
            v4 == SelectSeq(s.addrs, IsIPv4)
        IN (s.op = "Lookup" /\ s.pc = "done" /\ s.err = NoErr) =>
              /\ Len(s.frames) = Len(v4)
              /\ \A k \in 1..Len(v4) : s.frames[k].ip = v4[k]
              /\ s.ret.Results = Findings(s.frames)
              /\ \A k \in 1..Len(s.ret.Results) :
                    \E n \in 1..Len(v4) :
                        s.ret.Results[k].Address =
                            Itoa(Octet(v4[n], 1)) \o <<Dot>> \o Itoa(Octet(v4[n], 2))
                            \o <<Dot>> \o Itoa(Octet(v4[n], 3)) \o <<Dot>>
                            \o Itoa(Octet(v4[n], 4))
              /\ SelectSeq(s.queries, LAMBDA q : q.kind = "LookupHost") =
                    [k \in 1..Len(v4) |->
                        Query("LookupHost",
                              ReversedQuad(v4[k]) \o <<Dot>> \o built.hostname)]
              /\ \A k \in 1..Len(s.queries) :
                    s.queries[k].kind = "LookupTXT" =>
                        \E n \in 1..Len(v4) :
                            s.queries[k].name =
                                ReversedQuad(v4[n]) \o <<Dot>> \o built.hostname

C4_Witness ==
    \E c \in Callers :
        LET s == call[c]
        IN /\ s.op = "Lookup" /\ s.pc = "done" /\ s.err = NoErr
           /\ s.addrs = <<V4B, V6A, V4A>>
           /\ Len(s.frames) = 2
           /\ Len(s.frames[1].ret.Results) = 2
           /\ Len(s.ret.Results) = 3
           /\ s.ret.Results[3].Address = String(V4A)

\* C5: when the resolution of the host name in Lookup fails or yields no
\* address, Lookup returns a result with no finding, which carries nothing but
\* the list and the host, and has asked the resolver nothing but the host name.
C5_HostFailureEmpty ==
    \A c \in Callers :
        LET s == call[c]
        IN (s.op = "Lookup" /\ s.pc = "done" /\ (s.err # NoErr \/ s.addrs = <<>>)) =>
              /\ s.ret = [Host |-> s.arg, List |-> built.hostname, Results |-> <<>>]
              /\ s.queries = <<Query("LookupIPAddr", s.arg)>>
              /\ s.frames = <<>>

C5_Witness ==
    \E c \in Callers :
        /\ call[c].op = "Lookup" /\ call[c].pc = "done"
        /\ call[c].err \in ResolveErrs /\ call[c].addrs = <<V4B>>
        /\ call[c].ret.Results = <<>>

\* C6: Reverse returns, for an IPv4 address a.b.c.d in its 4-byte or 16-byte
\* form, the string "d.c.b.a" (192.168.1.1 gives 1.1.168.192), and for every
\* other address, IPv6, nil or of a bad length, the empty string.
C6_ReverseOctets ==
    rev.called =>
        /\ IsIPv4(rev.ip) => rev.out = ReversedQuad(rev.ip)
        /\ ~IsIPv4(rev.ip) => rev.out = <<>>
        /\ rev.ip = <<192, 168, 1, 1>> =>
              rev.out = <<"1", ".", "1", ".", "1", "6", "8", ".", "1", "9", "2">>

C6_Witness ==
    /\ rev.called
    /\ rev.ip = <<192, 168, 1, 1>>
    /\ rev.out = <<"1", ".", "1", ".", "1", "6", "8", ".", "1", "9", "2">>

\* C7: whatever the resolver answered, the result Lookup returns has List the
\* zone the client was built with and Host the host argument, and the result
\* LookupIP returns has List that zone and Host the string form of its address.
C7_ListAndHost ==
    \A c \in Callers :
        LET s == call[c]
        IN s.pc = "done" =>
              /\ s.ret.List = built.hostname
              /\ s.op = "Lookup" => s.ret.Host = s.arg
              /\ s.op = "LookupIP" => s.ret.Host = String(s.arg)

C7_Witness ==
    \E c \in Callers :
        /\ call[c].pc = "done" /\ call[c].op = "Lookup"
        /\ call[c].ret.Host = <<"s", "m", "t", "p">>
        /\ call[c].ret.List = <<"z", ".", "o", "r", "g">>
        /\ call[c].ret.Results # <<>>

\* C8 as claimed: a lookup whose context was cancelled while any one of its
\* resolver calls was pending returns a result with a finding whose Error is
\* true and whose ErrorType is the cancellation.
C8_AnyCancelGivesFinding ==
    \A c \in Callers :
        (call[c].pc = "done" /\ call[c].cancelledAt # "none") =>
            HasCancelFinding(call[c])

\* C8 amended: a lookup whose context was cancelled while a resolver call was
\* pending returns, and when that call was a blacklist host resolution
\* (LookupHost) its result has a finding whose Error is true and whose
\* ErrorType is the cancellation.
C8_CancelDuringLookupHost ==
    (call[Main].cancelledAt # "none")
        ~> (/\ call[Main].pc = "done"
            /\ call[Main].cancelledAt = "LookupHost" => HasCancelFinding(call[Main]))

C8_Witness ==
    /\ call[Main].pc = "done" /\ call[Main].op = "Lookup"
    /\ call[Main].cancelledAt = "LookupHost"
    /\ HasCancelFinding(call[Main])
    /\ ~call[Main].ret.Results[1].Error

\* C9: in every result, a finding that is not Listed has ListedAddress and Text
\* empty; all the findings of a LookupIP whose host resolution reported an
\* error have Error true and that error as ErrorType, the Listed ones too; the
\* findings of one that reported none have Error false and no ErrorType; and
\* the findings of a returned result are those of its runs of LookupIP.
C9_FindingInvariant ==
    /\ \A r \in Runs :
          \A k \in 1..Len(r.ret.Results) :
              LET x == r.ret.Results[k]
              IN /\ ~x.Listed => (x.ListedAddress = <<>> /\ x.Text = <<>>)
                 /\ r.err # NoErr => (x.Error /\ x.ErrorType = r.err)
                 /\ r.err = NoErr => (~x.Error /\ x.ErrorType = NoErr)
    /\ \A c \in Callers :
          call[c].pc = "done" => call[c].ret.Results = Findings(call[c].frames)

C9_Witness ==
    \E r \in Runs :
        /\ r.err \in ResolveErrs /\ Len(r.addrs) = 2
        /\ Len(r.ret.Results) = 2
        /\ \A k \in 1..2 : r.ret.Results[k].Listed /\ r.ret.Results[k].Error

\* what a call was told by the resolver, answer by answer
Told(s) ==
    <<s.addrs, s.err,
      [k \in 1..Len(s.frames) |->
          <<s.frames[k].addrs, s.frames[k].err, s.frames[k].txts>>]>>

\* two returned calls of the same operation with the same argument that were
\* told the same hold the same result and asked the same
SameInSameOut ==
    \A c \in Callers, d \in Callers :
        (/\ call[c].pc = "done" /\ call[d].pc = "done"
         /\ call[c].op = call[d].op
         /\ call[c].arg = call[d].arg
         /\ Told(call[c]) = Told(call[d])) =>
            /\ call[c].ret = call[d].ret
            /\ call[c].queries = call[d].queries

\* C10: with several callers on one client, the client's fields stay as NewRBL
\* set them; a step of one call changes nothing of the other calls; and the
\* result of a call is decided by its operation, its argument and the answers
\* it was given, whatever the other calls did meanwhile.
C10_CallsIndependent ==
    /\ [](/\ rbl = [hostname |-> built.hostname, lookupTxt |-> built.lookupTxt,
                    resolver |-> "net.Resolver"]
          /\ SameInSameOut)
    /\ [][/\ rbl' = rbl
          /\ \A c \in Callers, d \in Callers :
                (c # d /\ call'[c] # call[c]) => call'[d] = call[d]]_vars

C10_Witness ==
    /\ call["c1"].pc = "done" /\ call["c2"].pc = "done"
    /\ call["c1"].overlapped /\ call["c2"].overlapped
    /\ call["c1"].op = "Lookup" /\ call["c2"].op = "Lookup"
    /\ Told(call["c1"]) = Told(call["c2"])
    /\ call["c1"].ret.Results # <<>>
    /\ call["c1"].ret = call["c2"].ret

====
